---- MODULE Spec2Model ----
(***************************************************************************)
(* Model of the ratio computation of src/final.py: the helpers             *)
(* safe_divide and extract_float, the class FinanceMetrics with its eleven *)
(* compute_* rules run in the fixed order of compute(), and the "Compute   *)
(* Metrics" button handler that resets the module-level error_log and      *)
(* runs one computation.                                                   *)
(*                                                                         *)
(* Python values are records [t, n, d, s]:                                 *)
(*   t = "None"                 the object None                            *)
(*   t = "float"                the finite float n/d (d > 0, lowest terms) *)
(*   t = "nan"                  a not-a-number float; s = "np.nan" for the *)
(*                              one object numpy exports under that name,  *)
(*                              s = "other" for every other NaN object     *)
(*   t = "inf"                  the infinite float of sign n               *)
(*   t = "str"                  the text s                                 *)
(*   t = "raise"                not a value: the exception of class s that *)
(*                              an operation raised                        *)
(* Finite floats are exact rationals: rounding is not modelled.            *)
(***************************************************************************)
EXTENDS Integers, Sequences, FiniteSets, TLC

VARIABLES data, market_price, metrics, error_log, pc, exc, ran, prev, call

vars == <<data, market_price, metrics, error_log, pc, exc, ran, prev, call>>

\* ------------------------------------------------------------ bounds
\* At most this many fields are present in the uploaded record.
MaxFields == 2
\* The helpers are called directly only while the log is shorter than this.
MaxLog == 2

\* ------------------------------------------------------------ values
PyNone == [t |-> "None", n |-> 0, d |-> 1, s |-> ""]

Str(x) == [t |-> "str", n |-> 0, d |-> 1, s |-> x]

NaN(x) == [t |-> "nan", n |-> 0, d |-> 1, s |-> x]

Inf(sign) == [t |-> "inf", n |-> sign, d |-> 1, s |-> ""]

Raise(x) == [t |-> "raise", n |-> 0, d |-> 1, s |-> x]

Abs(i) == IF i < 0 THEN -i ELSE i

Sign(i) == IF i < 0 THEN -1 ELSE IF i = 0 THEN 0 ELSE 1

RECURSIVE GCD(_, _)
GCD(a, b) == IF b = 0 THEN a ELSE GCD(b, a % b)

\* The float n/d, d # 0, in lowest terms with a positive denominator.
Float(n, d) ==
    LET g == GCD(Abs(n), Abs(d))
    IN  [t |-> "float", n |-> Sign(d) * (n \div g), d |-> Abs(d) \div g, s |-> ""]

IsNone(v) == v.t = "None"

IsFinite(v) == v.t = "float"

IsNumber(v) == v.t \in {"float", "nan", "inf"}

\* a == b of Python on two values: a NaN equals nothing, itself included.
PyEq(a, b) ==
    /\ a.t # "nan"
    /\ b.t # "nan"
    /\ a = b

\* a is b of Python where it can be told: None is a singleton, np.nan is one object.
PyIs(a, b) ==
    \/ a.t = "None" /\ b.t = "None"
    \/ a.t = "nan" /\ b.t = "nan" /\ a.s = "np.nan" /\ b.s = "np.nan"

\* x in (a, b, c) of Python: identity first, then equality.
PyIn(x, tuple) == \E i \in 1..Len(tuple) : PyIs(x, tuple[i]) \/ PyEq(x, tuple[i])

\* a / b of Python.
PyDiv(a, b) ==
    IF ~IsNumber(a) \/ ~IsNumber(b) THEN Raise("TypeError")
    ELSE IF a.t = "nan" \/ b.t = "nan" THEN NaN("other")
    ELSE IF b.t = "float" /\ b.n = 0 THEN Raise("ZeroDivisionError")
    ELSE IF a.t = "inf" /\ b.t = "inf" THEN NaN("other")
    ELSE IF a.t = "inf" THEN Inf(a.n * Sign(b.n))
    ELSE IF b.t = "inf" THEN Float(0, 1)
    ELSE Float(a.n * b.d, a.d * b.n)

\* a - b of Python on two floats.
PySub(a, b) ==
    IF ~IsNumber(a) \/ ~IsNumber(b) THEN Raise("TypeError")
    ELSE IF a.t = "nan" \/ b.t = "nan" THEN NaN("other")
    ELSE IF a.t = "inf" /\ b.t = "inf" THEN IF a.n = b.n THEN NaN("other") ELSE a
    ELSE IF a.t = "inf" THEN a
    ELSE IF b.t = "inf" THEN Inf(-b.n)
    ELSE Float(a.n * b.d - b.n * a.d, a.d * b.d)

\* a * k of Python, a a float and k a positive integer literal.
PyMul(a, k) ==
    IF a.t = "float" THEN Float(a.n * k, a.d) ELSE a

\* The decimal texts of the model and the integers they spell.
DecimalText == [x \in {"0", "2", "5"} |-> CASE x = "0" -> 0 [] x = "2" -> 2 [] x = "5" -> 5]

\* float(v) of Python.
PyFloat(v) ==
    CASE IsNumber(v) -> v
      [] v.t = "str" ->
            IF v.s \in DOMAIN DecimalText THEN Float(DecimalText[v.s], 1)
            ELSE IF v.s = "nan" THEN NaN("other")
            ELSE IF v.s = "inf" THEN Inf(1)
            ELSE Raise("ValueError")
      [] OTHER -> Raise("TypeError")

\* pd.isna(v) on a scalar.
IsNa(v) == v.t \in {"None", "nan"}

\* ------------------------------------------------------------ the log
\* A log entry is the sequence of the pieces its f-string is built from.  The text
\* of an exception e is stood for by the name of its class.
ParseEntry(source_name, key, e) == <<source_name, ": Could not parse '", key, "': ", e>>

DivisionEntry(e) == <<"Division failed: ", e>>

NoteEntry(err_msg) == <<err_msg>>

\* bool(v) of Python for None and texts.
Truthy(v) == v.t = "str" /\ v.s # ""

\* ------------------------------------------------------------ helpers
\* safe_divide with 0 left out of the tuple of degenerate denominators.
safe_divide_zero_unchecked(numer, denom, err_msg, log) ==
    IF PyIn(denom, <<NaN("np.nan"), PyNone>>)
    THEN [val |-> PyNone,
          log |-> IF Truthy(err_msg) THEN Append(log, NoteEntry(err_msg.s)) ELSE log]
    ELSE LET q == PyDiv(numer, denom)
         IN  IF q.t = "raise"
             THEN [val |-> PyNone, log |-> Append(log, DivisionEntry(q.s))]
             ELSE [val |-> q, log |-> log]

\* safe_divide whose except branch returns None without logging.
safe_divide_silent_failure(numer, denom, err_msg, log) ==
    IF PyIn(denom, <<Float(0, 1), NaN("np.nan"), PyNone>>)
    THEN [val |-> PyNone,
          log |-> IF Truthy(err_msg) THEN Append(log, NoteEntry(err_msg.s)) ELSE log]
    ELSE LET q == PyDiv(numer, denom)
         IN  IF q.t = "raise"
             THEN [val |-> PyNone, log |-> log]
             ELSE [val |-> q, log |-> log]

\* safe_divide(numer, denom, err_msg) with the log it finds; the value returned
\* and the log it leaves.
safe_divide(numer, denom, err_msg, log) ==
    IF PyIn(denom, <<Float(0, 1), NaN("np.nan"), PyNone>>)
    THEN [val |-> PyNone,
          log |-> IF Truthy(err_msg) THEN Append(log, NoteEntry(err_msg.s)) ELSE log]
    ELSE LET q == PyDiv(numer, denom)
         IN  IF q.t = "raise"
             THEN [val |-> PyNone, log |-> Append(log, DivisionEntry(q.s))]
             ELSE [val |-> q, log |-> log]

\* extract_float(row, key, source_name) with the log it finds.  row maps the keys
\* it holds to their cells: row[key] of a Series whose index holds key, row.get(key)
\* of a dict.
extract_float(row, key, source_name, log) ==
    LET found == IF key \in DOMAIN row THEN row[key] ELSE PyNone
        val   == IF IsNa(found) THEN PyNone ELSE found
        f     == IF IsNone(val) THEN PyNone ELSE PyFloat(val)
    IN  IF f.t = "raise"
        THEN [val |-> PyNone, log |-> Append(log, ParseEntry(source_name, key, f.s))]
        ELSE [val |-> f, log |-> log]

\* ------------------------------------------------------------ the record
Fields ==
    {"EPS", "Book Value Per Share", "Revenue Per Share", "EPS Growth Rate (%)",
     "Revenue", "COGS", "Operating Income", "Net Income", "Current Assets",
     "Current Liabilities", "Total Debt", "Total Equity",
     "Average Shareholders Equity", "Average Total Assets"}

\* The cells of an XML record: child.text is a text.  (For an empty element it is
\* None, which row.get(key) also returns for an absent key: the records leave that
\* cell out, and the helpers called alone are given it.)
XmlCells == {Str("abc"), Str("nan"), Str("0"), Str("2")}

\* The cells of the first row of a table: a number, or a NaN for an empty cell.
TableCells == {Float(0, 1), Float(2, 1), NaN("other")}

Rows(cells) ==
    UNION {[S -> cells] : S \in {T \in SUBSET Fields : Cardinality(T) <= MaxFields}}

NoRow == [k \in {} |-> PyNone]

\* What read_file returns, and None when nothing was uploaded.
NoData == [kind |-> "None", nrows |-> 0, row |-> NoRow]

Records ==
    {[kind |-> "dict", nrows |-> 1, row |-> r] : r \in Rows(XmlCells)}
      \cup {[kind |-> "DataFrame", nrows |-> 1, row |-> r] : r \in Rows(TableCells)}
      \cup {[kind |-> "DataFrame", nrows |-> 0, row |-> NoRow]}

\* st.number_input(min_value=0.0): a float >= 0.
Prices == {Float(0, 1), Float(10, 1)}

\* ------------------------------------------------------------ FinanceMetrics
\* self.metrics[k] = v
Put(m, k, v) == [x \in DOMAIN m \cup {k} |-> IF x = k THEN v ELSE m[x]]

\* self.metrics.get(k)
Get(m, k) == IF k \in DOMAIN m THEN m[k] ELSE PyNone

\* FinanceMetrics.__init__: the mapping a new object starts with.
NewMetrics(price) == [k \in {"Market Price"} |-> price]

\* The property data_row: the first row of a DataFrame, which a table with no
\* rows does not have (iloc[0] raises IndexError), or the dict itself.
data_row ==
    IF data.kind = "DataFrame"
    THEN IF data.nrows = 0 THEN [ok |-> FALSE, row |-> NoRow]
                           ELSE [ok |-> TRUE, row |-> data.row]
    ELSE [ok |-> TRUE, row |-> data.row]

Out(m, log) == [metrics |-> m, log |-> log]

\* The percentage left unscaled.
Percent_unscaled(val) == val

\* val * 100 if val is not None else None
Percent(val) == IF IsNone(val) THEN PyNone ELSE PyMul(val, 100)

\* One compute_* method called at position `here` of compute(): the exception of
\* data_row leaves compute() and the handler; otherwise the method's effect `out`
\* on self.metrics and error_log, and compute() goes on to `next`.
Method(here, next, out) ==
    /\ pc = here
    /\ IF data_row.ok
       THEN /\ metrics' = out.metrics
            /\ error_log' = out.log
            /\ pc' = next
            /\ exc' = exc
       ELSE /\ pc' = "idle"
            /\ exc' = "IndexError"
            /\ UNCHANGED <<metrics, error_log>>
    /\ UNCHANGED <<data, market_price, ran, prev, call>>

compute_pe_ratio ==
    Method("compute_pe_ratio", "compute_pb_ratio",
        LET eps == extract_float(data_row.row, "EPS", "P/E", error_log)
        IN  IF IsNone(eps.val) THEN Out(metrics, eps.log)
            ELSE LET q == safe_divide(market_price, eps.val,
                                      Str("P/E: EPS is zero or missing"), eps.log)
                 IN  Out(Put(metrics, "P/E Ratio", q.val), q.log))

compute_pb_ratio ==
    Method("compute_pb_ratio", "compute_ps_ratio",
        LET bvps == extract_float(data_row.row, "Book Value Per Share", "P/B", error_log)
        IN  IF IsNone(bvps.val) THEN Out(metrics, bvps.log)
            ELSE LET q == safe_divide(market_price, bvps.val,
                                      Str("P/B: Book Value Per Share is zero or missing"),
                                      bvps.log)
                 IN  Out(Put(metrics, "P/B Ratio", q.val), q.log))

compute_ps_ratio ==
    Method("compute_ps_ratio", "compute_peg_ratio",
        LET rps == extract_float(data_row.row, "Revenue Per Share", "P/S", error_log)
        IN  IF IsNone(rps.val) THEN Out(metrics, rps.log)
            ELSE LET q == safe_divide(market_price, rps.val,
                                      Str("P/S: Revenue Per Share is zero or missing"),
                                      rps.log)
                 IN  Out(Put(metrics, "P/S Ratio", q.val), q.log))

\* compute_peg_ratio that returns early only on a missing growth rate.
compute_peg_ratio_unguarded ==
    Method("compute_peg_ratio", "compute_gross_margin",
        LET p_e    == Get(metrics, "P/E Ratio")
            growth == extract_float(data_row.row, "EPS Growth Rate (%)", "PEG", error_log)
        IN  IF IsNone(growth.val) THEN Out(metrics, growth.log)
            ELSE LET q == safe_divide(p_e, growth.val,
                                      Str("PEG: Growth rate is zero or missing"), growth.log)
                 IN  Out(Put(metrics, "PEG Ratio", q.val), q.log))

compute_peg_ratio ==
    Method("compute_peg_ratio", "compute_gross_margin",
        LET p_e    == Get(metrics, "P/E Ratio")
            growth == extract_float(data_row.row, "EPS Growth Rate (%)", "PEG", error_log)
        IN  IF IsNone(p_e) \/ IsNone(growth.val) THEN Out(metrics, growth.log)
            ELSE LET q == safe_divide(p_e, growth.val,
                                      Str("PEG: Growth rate is zero or missing"), growth.log)
                 IN  Out(Put(metrics, "PEG Ratio", q.val), q.log))

compute_gross_margin ==
    Method("compute_gross_margin", "compute_operating_margin",
        LET rev  == extract_float(data_row.row, "Revenue", "Gross Margin", error_log)
            cogs == extract_float(data_row.row, "COGS", "Gross Margin", rev.log)
        IN  IF IsNone(rev.val) \/ IsNone(cogs.val) THEN Out(metrics, cogs.log)
            ELSE LET q == safe_divide(PySub(rev.val, cogs.val), rev.val,
                                      Str("Gross Margin: Revenue zero"), cogs.log)
                 IN  Out(Put(metrics, "Gross Profit Margin (%)", Percent(q.val)), q.log))

\* compute_operating_margin without its early return.
compute_operating_margin_no_return ==
    Method("compute_operating_margin", "compute_net_margin",
        LET op_inc == extract_float(data_row.row, "Operating Income", "Operating Margin",
                                    error_log)
            rev    == extract_float(data_row.row, "Revenue", "Operating Margin", op_inc.log)
            q      == safe_divide(op_inc.val, rev.val,
                                  Str("Operating Margin: Revenue zero"), rev.log)
        IN  Out(Put(metrics, "Operating Margin (%)", Percent(q.val)), q.log))

compute_operating_margin ==
    Method("compute_operating_margin", "compute_net_margin",
        LET op_inc == extract_float(data_row.row, "Operating Income", "Operating Margin",
                                    error_log)
            rev    == extract_float(data_row.row, "Revenue", "Operating Margin", op_inc.log)
        IN  IF IsNone(op_inc.val) \/ IsNone(rev.val) THEN Out(metrics, rev.log)
            ELSE LET q == safe_divide(op_inc.val, rev.val,
                                      Str("Operating Margin: Revenue zero"), rev.log)
                 IN  Out(Put(metrics, "Operating Margin (%)", Percent(q.val)), q.log))

compute_net_margin ==
    Method("compute_net_margin", "compute_current_ratio",
        LET net_inc == extract_float(data_row.row, "Net Income", "Net Margin", error_log)
            rev     == extract_float(data_row.row, "Revenue", "Net Margin", net_inc.log)
        IN  IF IsNone(net_inc.val) \/ IsNone(rev.val) THEN Out(metrics, rev.log)
            ELSE LET q == safe_divide(net_inc.val, rev.val,
                                      Str("Net Margin: Revenue zero"), rev.log)
                 IN  Out(Put(metrics, "Net Profit Margin (%)", Percent(q.val)), q.log))

compute_current_ratio ==
    Method("compute_current_ratio", "compute_debt_to_equity",
        LET ca == extract_float(data_row.row, "Current Assets", "Current Ratio", error_log)
            cl == extract_float(data_row.row, "Current Liabilities", "Current Ratio", ca.log)
        IN  IF IsNone(ca.val) \/ IsNone(cl.val) THEN Out(metrics, cl.log)
            ELSE LET q == safe_divide(ca.val, cl.val,
                                      Str("Current Ratio: Liabilities zero"), cl.log)
                 IN  Out(Put(metrics, "Current Ratio", q.val), q.log))

compute_debt_to_equity ==
    Method("compute_debt_to_equity", "compute_roe",
        LET debt   == extract_float(data_row.row, "Total Debt", "Debt/Equity", error_log)
            equity == extract_float(data_row.row, "Total Equity", "Debt/Equity", debt.log)
        IN  IF IsNone(debt.val) \/ IsNone(equity.val) THEN Out(metrics, equity.log)
            ELSE LET q == safe_divide(debt.val, equity.val,
                                      Str("Debt/Equity: Equity zero"), equity.log)
                 IN  Out(Put(metrics, "Debt to Equity Ratio", q.val), q.log))

compute_roe ==
    Method("compute_roe", "compute_roa",
        LET net_inc == extract_float(data_row.row, "Net Income", "ROE", error_log)
            avg_eq  == extract_float(data_row.row, "Average Shareholders Equity", "ROE",
                                     net_inc.log)
        IN  IF IsNone(net_inc.val) \/ IsNone(avg_eq.val) THEN Out(metrics, avg_eq.log)
            ELSE LET q == safe_divide(net_inc.val, avg_eq.val,
                                      Str("ROE: Equity zero"), avg_eq.log)
                 IN  Out(Put(metrics, "Return on Equity (%)", Percent(q.val)), q.log))

compute_roa ==
    Method("compute_roa", "report",
        LET net_inc    == extract_float(data_row.row, "Net Income", "ROA", error_log)
            avg_assets == extract_float(data_row.row, "Average Total Assets", "ROA",
                                        net_inc.log)
        IN  IF IsNone(net_inc.val) \/ IsNone(avg_assets.val) THEN Out(metrics, avg_assets.log)
            ELSE LET q == safe_divide(net_inc.val, avg_assets.val,
                                      Str("ROA: Assets zero"), avg_assets.log)
                 IN  Out(Put(metrics, "Return on Assets (%)", Percent(q.val)), q.log))

\* compute(): the eleven methods; pc holds the one that runs next.
compute ==
    \/ compute_pe_ratio
    \/ compute_pb_ratio
    \/ compute_ps_ratio
    \/ compute_peg_ratio
    \/ compute_gross_margin
    \/ compute_operating_margin
    \/ compute_net_margin
    \/ compute_current_ratio
    \/ compute_debt_to_equity
    \/ compute_roe
    \/ compute_roa

\* ------------------------------------------------------------ the handler
\* No call of a helper outside compute().
NoCall ==
    [fn |-> "none", numer |-> PyNone, denom |-> PyNone, err_msg |-> PyNone,
     row |-> NoRow, key |-> "", source_name |-> "", ret |-> PyNone, before |-> <<>>]

\* The handler without its reset of the log.
ComputeMetrics_no_reset ==
    /\ pc = "idle"
    /\ IF data.kind = "None"
       THEN UNCHANGED vars
       ELSE /\ error_log' = error_log
            /\ metrics' = NewMetrics(market_price)
            /\ pc' = "compute_pe_ratio"
            /\ exc' = "none"
            /\ ran' = TRUE
            /\ prev' = [valid |-> ran, metrics |-> metrics, log |-> error_log, exc |-> exc]
            /\ UNCHANGED <<data, market_price, call>>

\* The "Compute Metrics" button: without data an error is shown; with data the
\* log is reset, a FinanceMetrics is built and compute() starts.  prev keeps what
\* the run before left, for comparison.
ComputeMetrics ==
    /\ pc = "idle"
    /\ IF data.kind = "None"
       THEN UNCHANGED vars
       ELSE /\ error_log' = <<>>
            /\ metrics' = NewMetrics(market_price)
            /\ pc' = "compute_pe_ratio"
            /\ exc' = "none"
            /\ ran' = TRUE
            /\ prev' = [valid |-> ran, metrics |-> metrics, log |-> error_log, exc |-> exc]
            /\ UNCHANGED <<data, market_price, call>>

\* After compute(): the table and the log are shown, then io.StringIO() is
\* called although the name io is not imported, and the script run ends.
Report ==
    /\ pc = "report"
    /\ pc' = "idle"
    /\ exc' = "NameError"
    /\ UNCHANGED <<data, market_price, metrics, error_log, ran, prev, call>>

Init ==
    /\ data \in Records \cup {NoData}
    /\ market_price \in Prices
    /\ metrics = NewMetrics(market_price)
    /\ error_log = <<>>
    /\ pc = "idle"
    /\ exc = "none"
    /\ ran = FALSE
    /\ prev = [valid |-> FALSE, metrics |-> NewMetrics(market_price), log |-> <<>>,
               exc |-> "none"]
    /\ call = NoCall

Next ==
    \/ ComputeMetrics
    \/ compute
    \/ Report

Spec == Init /\ [][Next]_vars

\* ------------------------------------------------------------ the helpers alone
\* The helpers called directly, outside compute(), on arguments of every kind.
Numerators == {PyNone, Float(0, 1), Float(10, 1), NaN("other")}

Denominators ==
    {PyNone, Float(0, 1), Float(2, 1), NaN("np.nan"), NaN("other"), Inf(1)}

Messages == {PyNone, Str("P/E: EPS is zero or missing")}

HelperCells == XmlCells \cup TableCells \cup {PyNone, Str("inf")}

HelperKeys == {"EPS", "Book Value Per Share"}

HelperRows == {NoRow} \cup UNION {[{k} -> HelperCells] : k \in HelperKeys}

HelperSources == {"P/E", "P/B"}

CallSafeDivide ==
    /\ pc = "helper"
    /\ Len(error_log) < MaxLog
    /\ \E numer \in Numerators, denom \in Denominators, err_msg \in Messages :
          LET r == safe_divide(numer, denom, err_msg, error_log)
          IN  /\ error_log' = r.log
              /\ call' = [NoCall EXCEPT !.fn = "safe_divide", !.numer = numer,
                                        !.denom = denom, !.err_msg = err_msg,
                                        !.ret = r.val, !.before = error_log]
    /\ UNCHANGED <<data, market_price, metrics, pc, exc, ran, prev>>

CallExtractFloat ==
    /\ pc = "helper"
    /\ Len(error_log) < MaxLog
    /\ \E row \in HelperRows, key \in HelperKeys, source_name \in HelperSources :
          LET r == extract_float(row, key, source_name, error_log)
          IN  /\ error_log' = r.log
              /\ call' = [NoCall EXCEPT !.fn = "extract_float", !.row = row, !.key = key,
                                        !.source_name = source_name,
                                        !.ret = r.val, !.before = error_log]
    /\ UNCHANGED <<data, market_price, metrics, pc, exc, ran, prev>>

HelperInit ==
    /\ data = NoData
    /\ market_price = Float(0, 1)
    /\ metrics = NewMetrics(market_price)
    /\ error_log = <<>>
    /\ pc = "helper"
    /\ exc = "none"
    /\ ran = FALSE
    /\ prev = [valid |-> FALSE, metrics |-> NewMetrics(market_price), log |-> <<>>,
               exc |-> "none"]
    /\ call = NoCall

HelperNext ==
    \/ CallSafeDivide
    \/ CallExtractFloat

HelperSpec == HelperInit /\ [][HelperNext]_vars

\* ------------------------------------------------------------ the catalog
\* The eleven metrics in the order of compute(): the key under which each is
\* stored, the method that computes it, the fields it reads, its denominator field
\* (and numerator field where it has one), the note it passes to safe_divide and
\* whether it is stored as a percentage.  kind: "price" divides the market price,
\* "peg" divides the stored P/E Ratio, "gross" divides Revenue - COGS, "ratio"
\* divides the field num.
Metric(name, step, kind, num, den, note, pct) ==
    [name |-> name, step |-> step, kind |-> kind, num |-> num, den |-> den,
     fields |-> IF kind \in {"price", "peg"} THEN {den} ELSE {num, den},
     note |-> note, pct |-> pct]

Catalog ==
    <<Metric("P/E Ratio", "compute_pe_ratio", "price", "", "EPS",
             "P/E: EPS is zero or missing", FALSE),
      Metric("P/B Ratio", "compute_pb_ratio", "price", "", "Book Value Per Share",
             "P/B: Book Value Per Share is zero or missing", FALSE),
      Metric("P/S Ratio", "compute_ps_ratio", "price", "", "Revenue Per Share",
             "P/S: Revenue Per Share is zero or missing", FALSE),
      Metric("PEG Ratio", "compute_peg_ratio", "peg", "", "EPS Growth Rate (%)",
             "PEG: Growth rate is zero or missing", FALSE),
      Metric("Gross Profit Margin (%)", "compute_gross_margin", "gross", "COGS", "Revenue",
             "Gross Margin: Revenue zero", TRUE),
      Metric("Operating Margin (%)", "compute_operating_margin", "ratio",
             "Operating Income", "Revenue", "Operating Margin: Revenue zero", TRUE),
      Metric("Net Profit Margin (%)", "compute_net_margin", "ratio", "Net Income", "Revenue",
             "Net Margin: Revenue zero", TRUE),
      Metric("Current Ratio", "compute_current_ratio", "ratio", "Current Assets",
             "Current Liabilities", "Current Ratio: Liabilities zero", FALSE),
      Metric("Debt to Equity Ratio", "compute_debt_to_equity", "ratio", "Total Debt",
             "Total Equity", "Debt/Equity: Equity zero", FALSE),
      Metric("Return on Equity (%)", "compute_roe", "ratio", "Net Income",
             "Average Shareholders Equity", "ROE: Equity zero", TRUE),
      Metric("Return on Assets (%)", "compute_roa", "ratio", "Net Income",
             "Average Total Assets", "ROA: Assets zero", TRUE)>>

MetricNames == {Catalog[i].name : i \in DOMAIN Catalog}

\* Number of catalog steps that come before position p of a run.
StepsBefore(p) ==
    IF \E i \in DOMAIN Catalog : Catalog[i].step = p
    THEN (CHOOSE i \in DOMAIN Catalog : Catalog[i].step = p) - 1
    ELSE Len(Catalog)

\* ------------------------------------------------------------ reading the claims
\* The finite number the record holds for a field, None when it holds none: the key
\* is absent, or its cell is empty, not-a-number or no decimal text.
Number(key) ==
    IF key \notin DOMAIN data.row THEN PyNone
    ELSE LET c == data.row[key]
         IN  IF c.t = "float" THEN c
             ELSE IF c.t = "str" /\ c.s \in DOMAIN DecimalText
                  THEN Float(DecimalText[c.s], 1)
                  ELSE PyNone

\* A cell that holds a text float() cannot convert.
Unparsable(row, key) ==
    /\ key \in DOMAIN row
    /\ row[key].t = "str"
    /\ PyFloat(row[key]).t = "raise"

\* The numerator of a metric by the catalog's formula, in the state before its step.
Numerator(m) ==
    CASE m.kind = "price" -> market_price
      [] m.kind = "peg"   -> Get(metrics, "P/E Ratio")
      [] m.kind = "gross" ->
            IF IsFinite(Number("Revenue")) /\ IsFinite(Number("COGS"))
            THEN PySub(Number("Revenue"), Number("COGS")) ELSE PyNone
      [] OTHER -> Number(m.num)

\* The value of the catalog's formula where numerator and denominator are finite
\* and the denominator is not zero.
CatalogValue(m) ==
    LET q == PyDiv(Numerator(m), Number(m.den))
    IN  IF m.pct THEN PyMul(q, 100) ELSE q

\* The step of metric m is about to run on a record that has a row.
AtStep(m) == pc = m.step /\ data_row.ok

\* compute() has returned.
Computed == pc = "report"

\* ------------------------------------------------------------ the claims
\* C1: when compute() has returned, the metrics mapping holds a key for each of the
\* eleven catalog metrics besides "Market Price"; none is omitted.
C1_EveryMetricListed ==
    Computed => (MetricNames \cup {"Market Price"}) \subseteq DOMAIN metrics

\* C2: compute() never raises to its caller, whatever non-null record it is given.
C2_ComputeNeverRaises == exc # "IndexError"

\* C3: when the field asked for is absent, not-a-number or not convertible,
\* extract_float returns None and appends exactly the one entry
\* "{source_name}: Could not parse '{key}'".
C3_UnusableFieldLogged ==
    (/\ call.fn = "extract_float"
     /\ \/ call.key \notin DOMAIN call.row
        \/ call.row[call.key].t = "nan"
        \/ PyFloat(call.row[call.key]).t = "raise")
    => /\ IsNone(call.ret)
       /\ error_log = Append(call.before,
                             <<call.source_name, ": Could not parse '", call.key, "'">>)

\* C4: a step whose denominator is present and zero while its numerator is present
\* stores None for its metric and appends exactly one entry, the note of that metric.
C4_ZeroDenominator ==
    [][\A i \in DOMAIN Catalog :
          LET m == Catalog[i]
          IN  (AtStep(m) /\ IsFinite(Numerator(m)) /\ Number(m.den) = Float(0, 1))
              => /\ m.name \in DOMAIN metrics'
                 /\ IsNone(metrics'[m.name])
                 /\ error_log' = Append(error_log, NoteEntry(m.note))]_vars

C4_Witness ==
    /\ pc = "compute_net_margin"
    /\ IsFinite(Number("Operating Income"))
    /\ Number("Revenue") = Float(0, 1)
    /\ "Operating Margin (%)" \in DOMAIN metrics
    /\ IsNone(metrics["Operating Margin (%)"])
    /\ error_log = <<NoteEntry("Operating Margin: Revenue zero")>>

\* C5: a step whose numerator is present and whose denominator is present and not
\* zero stores the value of the catalog's formula and appends nothing; a zero
\* numerator gives the value 0.
C5_CatalogFormula ==
    [][\A i \in DOMAIN Catalog :
          LET m == Catalog[i]
          IN  (/\ AtStep(m)
               /\ IsFinite(Numerator(m))
               /\ IsFinite(Number(m.den))
               /\ Number(m.den) # Float(0, 1))
              => /\ m.name \in DOMAIN metrics'
                 /\ metrics'[m.name] = CatalogValue(m)
                 /\ IsFinite(metrics'[m.name])
                 /\ error_log' = error_log]_vars

C5_Witness ==
    /\ Computed
    /\ market_price = Float(0, 1)
    /\ Number("EPS") = Float(2, 1)
    /\ Number("EPS Growth Rate (%)") = Float(2, 1)
    /\ Get(metrics, "P/E Ratio") = Float(0, 1)
    /\ Get(metrics, "PEG Ratio") = Float(0, 1)
    /\ error_log = <<>>

\* C6: a second run of the handler on the same record and price ends with the same
\* metrics mapping and the same log as the run before it, nothing carried over.
C6_Idempotent ==
    (pc = "idle" /\ prev.valid) => (metrics = prev.metrics /\ error_log = prev.log)

C6_Witness ==
    /\ pc = "idle"
    /\ prev.valid
    /\ Len(error_log) = 2
    /\ Cardinality(DOMAIN metrics) > 1

\* C7 as stated: with P/E Ratio unavailable, the PEG step leaves PEG Ratio
\* unavailable and appends nothing, whatever the growth field holds.
C7_PegSilent ==
    [][(AtStep(Catalog[4]) /\ IsNone(Get(metrics, "P/E Ratio")))
       => /\ IsNone(Get(metrics', "PEG Ratio"))
          /\ error_log' = error_log]_vars

\* C7 amended: with P/E Ratio unavailable, the PEG step leaves PEG Ratio
\* unavailable; it appends nothing, except the one parse entry of the growth field
\* when that field holds a text that is no number.
C7_PegLogsOnlyGrowthParse ==
    [][(AtStep(Catalog[4]) /\ IsNone(Get(metrics, "P/E Ratio")))
       => /\ IsNone(Get(metrics', "PEG Ratio"))
          /\ error_log' =
                IF Unparsable(data.row, "EPS Growth Rate (%)")
                THEN Append(error_log, ParseEntry("PEG", "EPS Growth Rate (%)", "ValueError"))
                ELSE error_log]_vars

C7_Witness ==
    /\ pc = "compute_gross_margin"
    /\ Number("EPS") = Float(0, 1)
    /\ "P/E Ratio" \in DOMAIN metrics
    /\ IsNone(metrics["P/E Ratio"])
    /\ Unparsable(data.row, "EPS Growth Rate (%)")
    /\ IsNone(Get(metrics, "PEG Ratio"))
    /\ error_log = <<NoteEntry("P/E: EPS is zero or missing"),
                     ParseEntry("PEG", "EPS Growth Rate (%)", "ValueError")>>

\* Most entries the steps before position n + 1 can have appended: one per field read.
RECURSIVE FieldReads(_)
FieldReads(n) == IF n = 0 THEN 0 ELSE Cardinality(Catalog[n].fields) + FieldReads(n - 1)

\* C8 as stated: a run holds at most as many entries as metrics attempted, each
\* step appends at most one, and a step that stores a number appends none.
C8_OneEntryPerMetric ==
    [][/\ Len(error_log') <= StepsBefore(pc')
       /\ \A i \in DOMAIN Catalog :
             LET m == Catalog[i]
             IN  AtStep(m)
                 => /\ Len(error_log') <= Len(error_log) + 1
                    /\ IsNumber(Get(metrics', m.name)) => error_log' = error_log]_vars

\* C8 amended: each step appends at most one entry per field it reads (two for a
\* two-field metric), a run holds at most one entry per field read so far, and a
\* step that stores a number appends none.
C8_OneEntryPerFieldRead ==
    [][/\ Len(error_log') <= FieldReads(StepsBefore(pc'))
       /\ \A i \in DOMAIN Catalog :
             LET m == Catalog[i]
             IN  AtStep(m)
                 => /\ Len(error_log') <= Len(error_log) + Cardinality(m.fields)
                    /\ IsNumber(Get(metrics', m.name)) => error_log' = error_log]_vars

C8_Witness ==
    /\ pc = "compute_operating_margin"
    /\ "Gross Profit Margin (%)" \notin DOMAIN metrics
    /\ error_log = <<ParseEntry("Gross Margin", "Revenue", "ValueError"),
                     ParseEntry("Gross Margin", "COGS", "ValueError")>>

\* C9: no stored metric is NaN or infinite: each is None or a finite float.
C9_NoNaNMetric ==
    \A k \in DOMAIN metrics : IsNone(metrics[k]) \/ IsFinite(metrics[k])

\* C10 as stated: safe_divide with a None numerator and a present, non-zero
\* denominator returns None and leaves the log as it found it.
C10_MissingNumeratorSilent ==
    (/\ call.fn = "safe_divide"
     /\ IsNone(call.numer)
     /\ call.denom.t \in {"float", "inf"}
     /\ call.denom # Float(0, 1))
    => (IsNone(call.ret) /\ error_log = call.before)

\* C10 amended: safe_divide with a None numerator and a present, non-zero
\* denominator returns None and appends exactly one entry, "Division failed: "
\* followed by the text of the TypeError; err_msg is not appended.
C10_MissingNumeratorLogged ==
    (/\ call.fn = "safe_divide"
     /\ IsNone(call.numer)
     /\ call.denom.t \in {"float", "inf"}
     /\ call.denom # Float(0, 1))
    => (IsNone(call.ret) /\ error_log = Append(call.before, DivisionEntry("TypeError")))

C10_Witness ==
    /\ call.fn = "safe_divide"
    /\ IsNone(call.numer)
    /\ call.denom = Float(2, 1)
    /\ Truthy(call.err_msg)
    /\ IsNone(call.ret)
    /\ error_log = Append(call.before, DivisionEntry("TypeError"))

====
